---------------------------- MODULE Spec2Model ----------------------------
(***************************************************************************)
(* A model of elf_path_fixer.py: the ELF parser (ElfParser) and the        *)
(* in-place patcher (modify_elf_file).                                     *)
(*                                                                         *)
(* A file is a record [exists, hdr, data].  hdr is the structured part of  *)
(* the file that lies before the byte window (its first four bytes, the    *)
(* section header table, the dynamic section); data is the byte window     *)
(* that starts at file                                                     *)
(* offset HdrSize and runs to the end of the file: the dynamic string      *)
(* table and whatever follows it.  Bytes are 0..255, text is a sequence    *)
(* of code points.                                                         *)
(***************************************************************************)
EXTENDS Integers, Sequences, FiniteSets, TLC

\* ------------------------------------------------------------------ bounds

\* File offset of the first byte of the window `data`.
HdrSize == 1
\* Most strings laid out in the dynamic string table of an input file.
MaxStrings == 2
\* Most patterns given on the command line.
MaxPatterns == 1
\* Most runs of modify_elf_file on the same target.
MaxRuns == 2

\* --------------------------------------------------------- program constants

DT_NEEDED == 1
DT_RPATH == 15
DT_RUNPATH == 29
DT_STRTAB == 5
DT_STRSZ == 10
SHT_DYNAMIC == 6
\* b'\x7fELF': the first four bytes of an ELF file.
ElfMagic == <<127, 69, 76, 70>>

\* ------------------------------------------------------------ sequences

RECURSIVE Concat(_)
\* The concatenation of a sequence of sequences.
Concat(ss) == IF ss = <<>> THEN <<>> ELSE Head(ss) \o Concat(Tail(ss))

\* n zero bytes: b'\0' * n.
Zeros(n) == [k \in 1..n |-> 0]

\* The sequences over S of length lo..hi.
SeqsOf(S, lo, hi) == UNION {[1..n -> S] : n \in lo..hi}

\* ------------------------------------------------------------ text and bytes

\* The replacement character U+FFFD that errors='replace' puts in.
ReplacementChar == 65533

IsCont(b) == b >= 128 /\ b <= 191

\* One step of the UTF-8 decoder at position i of bs: <<code point, bytes used>>.
\* An ill-formed or truncated sequence gives U+FFFD for its maximal valid prefix.
DecodeStep(bs, i) ==
    LET n == Len(bs)
        b == bs[i]
        has(k) == i + k <= n
        at(k) == bs[i + k]
        bad(k) == <<ReplacementChar, k>>
    IN  IF b < 128 THEN <<b, 1>>
        ELSE IF b >= 194 /\ b <= 223 THEN
            IF has(1) /\ IsCont(at(1))
            THEN <<(b - 192) * 64 + (at(1) - 128), 2>>
            ELSE bad(1)
        ELSE IF b >= 224 /\ b <= 239 THEN
            LET lo == IF b = 224 THEN 160 ELSE 128
                hi == IF b = 237 THEN 159 ELSE 191
            IN  IF ~(has(1) /\ at(1) >= lo /\ at(1) <= hi) THEN bad(1)
                ELSE IF ~(has(2) /\ IsCont(at(2))) THEN bad(2)
                ELSE <<(b - 224) * 4096 + (at(1) - 128) * 64 + (at(2) - 128), 3>>
        ELSE IF b >= 240 /\ b <= 244 THEN
            LET lo == IF b = 240 THEN 144 ELSE 128
                hi == IF b = 244 THEN 143 ELSE 191
            IN  IF ~(has(1) /\ at(1) >= lo /\ at(1) <= hi) THEN bad(1)
                ELSE IF ~(has(2) /\ IsCont(at(2))) THEN bad(2)
                ELSE IF ~(has(3) /\ IsCont(at(3))) THEN bad(3)
                ELSE <<(b - 240) * 262144 + (at(1) - 128) * 4096
                         + (at(2) - 128) * 64 + (at(3) - 128), 4>>
        ELSE bad(1)

RECURSIVE DecodeFrom(_, _)
DecodeFrom(bs, i) ==
    IF i > Len(bs) THEN <<>>
    ELSE LET st == DecodeStep(bs, i)
         IN  <<st[1]>> \o DecodeFrom(bs, i + st[2])

\* bytes.decode('utf-8', errors='replace')
Decode(bs) == DecodeFrom(bs, 1)

\* The UTF-8 bytes of one code point.
EncodeChar(c) ==
    IF c < 128 THEN <<c>>
    ELSE IF c < 2048 THEN <<192 + (c \div 64), 128 + (c % 64)>>
    ELSE IF c < 65536 THEN
        <<224 + (c \div 4096), 128 + ((c \div 64) % 64), 128 + (c % 64)>>
    ELSE <<240 + (c \div 262144), 128 + ((c \div 4096) % 64),
           128 + ((c \div 64) % 64), 128 + (c % 64)>>

\* str.encode('utf-8')
Encode(s) == Concat([k \in 1..Len(s) |-> EncodeChar(s[k])])

\* pat.search(s) is not None, for a pattern that is a literal text.
Search(pat, s) ==
    \E i \in 0..(Len(s) - Len(pat)) : SubSeq(s, i + 1, i + Len(pat)) = pat

\* any(pat.search(s) is not None for pat in patterns)
AnyMatch(pats, s) == \E k \in 1..Len(pats) : Search(pats[k], s)

\* Basename that puts the name under the root instead: one character longer
\* than the name.
BasenameAbsolute(s) == <<47>> \o s

\* os.path.basename(lib): what follows the last '/'.
Basename(s) ==
    LET slashes == {k \in 1..Len(s) : s[k] = 47}
        i == IF slashes = {} THEN 0
             ELSE CHOOSE k \in slashes : \A j \in slashes : j <= k
    IN  SubSeq(s, i + 1, Len(s))

RECURSIVE SplitColon(_)
\* path.split(':'): the components between the colons, empty ones included.
SplitColon(s) ==
    LET colons == {k \in 1..Len(s) : s[k] = 58}
    IN  IF colons = {} THEN <<s>>
        ELSE LET i == CHOOSE k \in colons : \A j \in colons : k <= j
             IN  <<SubSeq(s, 1, i - 1)>> \o SplitColon(SubSeq(s, i + 1, Len(s)))

RECURSIVE JoinColon(_)
\* ':'.join(parts)
JoinColon(parts) ==
    IF parts = <<>> THEN <<>>
    ELSE IF Len(parts) = 1 THEN parts[1]
    ELSE parts[1] \o <<58>> \o JoinColon(Tail(parts))

RECURSIVE Unmatched(_, _)
\* The components that no pattern matches, in order (new_paths).
Unmatched(pats, parts) ==
    IF parts = <<>> THEN <<>>
    ELSE (IF AnyMatch(pats, Head(parts)) THEN <<>> ELSE <<Head(parts)>>)
         \o Unmatched(pats, Tail(parts))


\* ------------------------------------------------------------------ files

\* A path at which no file exists.
NoFile == [exists |-> FALSE,
           hdr |-> [complete |-> FALSE, magic |-> <<>>, sections |-> <<>>],
           data |-> <<>>]

\* f.seek(off); f.read(n): the bytes at file offsets off..off+n-1, cut at the
\* end of the file.
ReadAt(f, off, n) ==
    LET lo == off - HdrSize + 1
        hi == IF lo + n - 1 > Len(f.data) THEN Len(f.data) ELSE lo + n - 1
    IN  SubSeq(f.data, lo, hi)

\* f.seek(off); f.write(bs): bs replaces the bytes at off.., the file grows when
\* the write passes its end (a gap before off reads as zeros).
WriteAt(f, off, bs) ==
    LET lo == off - HdrSize + 1
        hi == lo + Len(bs) - 1
        n == IF hi > Len(f.data) THEN hi ELSE Len(f.data)
    IN  [f EXCEPT !.data =
            [k \in 1..n |-> IF k >= lo /\ k <= hi THEN bs[k - lo + 1]
                            ELSE IF k <= Len(f.data) THEN f.data[k]
                            ELSE 0]]

\* What shutil.copy2(src, dst) can leave at dst when it raises: dst as it was
\* (the open failed), or a copy cut short, of which these stand for all: cut
\* inside the headers (a file that no longer parses), cut right after them, cut
\* before the last byte, and complete (the copy of the metadata raised).
PartialCopies(src, dst) ==
    {dst, [exists |-> TRUE, hdr |-> NoFile.hdr, data |-> <<>>]}
    \cup {[src EXCEPT !.data = SubSeq(src.data, 1, n)] :
              n \in {0, Len(src.data) - 1, Len(src.data)} \cap 0..Len(src.data)}

\* ----------------------------------------------------------------- ElfParser

RECURSIVE LastValue(_, _, _)
\* The value of the last entry tagged `tag`, or `init` when there is none: the
\* scan of the dynamic table keeps overwriting.
LastValue(entries, tag, init) ==
    IF entries = <<>> THEN init
    ELSE LET e == entries[Len(entries)]
         IN  IF e[1] = tag THEN e[2]
             ELSE LastValue(SubSeq(entries, 1, Len(entries) - 1), tag, init)

\* FindDynamicSection that takes the first section, whatever its type.
FindDynamicSectionAnyType(hdr) ==
    IF hdr.sections = <<>>
    THEN [found |-> FALSE, dynamic_section |-> <<>>,
          strtab_offset |-> 0, strtab_size |-> 0]
    ELSE LET es == hdr.sections[1].entries
         IN  [found |-> TRUE, dynamic_section |-> es,
              strtab_offset |-> LastValue(es, DT_STRTAB, 0),
              strtab_size |-> LastValue(es, DT_STRSZ, 0)]

\* ElfParser._find_dynamic_section: the first section of type SHT_DYNAMIC.
FindDynamicSection(hdr) ==
    LET dyn == {k \in 1..Len(hdr.sections) : hdr.sections[k].sh_type = SHT_DYNAMIC}
    IN  IF dyn = {}
        THEN [found |-> FALSE, dynamic_section |-> <<>>,
              strtab_offset |-> 0, strtab_size |-> 0]
        ELSE LET i == CHOOSE k \in dyn : \A j \in dyn : k <= j
                 es == hdr.sections[i].entries
             IN  [found |-> TRUE, dynamic_section |-> es,
                  strtab_offset |-> LastValue(es, DT_STRTAB, 0),
                  strtab_size |-> LastValue(es, DT_STRSZ, 0)]

\* ElfParser._load_string_table; <<>> stands for a table that was not loaded.
LoadStringTable(f, strtab_offset, strtab_size) ==
    IF strtab_offset # 0 /\ strtab_size # 0
    THEN ReadAt(f, strtab_offset, strtab_size)
    ELSE <<>>

\* GetString that looks for the terminator after the byte at offset.
GetStringPastFirst(string_table, offset) ==
    LET nuls == {k \in (offset + 2)..Len(string_table) : string_table[k] = 0}
    IN  IF string_table = <<>> \/ nuls = {}
        THEN [found |-> FALSE, s |-> <<>>]
        ELSE LET end == CHOOSE k \in nuls : \A j \in nuls : k <= j
             IN  [found |-> TRUE, s |-> Decode(SubSeq(string_table, offset + 1, end - 1))]

\* ElfParser._get_string: [found, s]; found is FALSE for None.
GetString(string_table, offset) ==
    LET nuls == {k \in (offset + 1)..Len(string_table) : string_table[k] = 0}
    IN  IF string_table = <<>> \/ nuls = {}
        THEN [found |-> FALSE, s |-> <<>>]
        ELSE LET end == CHOOSE k \in nuls : \A j \in nuls : k <= j
             IN  [found |-> TRUE, s |-> Decode(SubSeq(string_table, offset + 1, end - 1))]

RECURSIVE NeededLibraries(_, _)
\* ElfParser.get_needed_libraries: <<name, offset>> of every DT_NEEDED entry
\* whose name resolves to a non-empty text.
NeededLibraries(entries, string_table) ==
    IF entries = <<>> THEN <<>>
    ELSE LET e == Head(entries)
             r == GetString(string_table, e[2])
         IN  (IF e[1] = DT_NEEDED /\ r.found /\ r.s # <<>>
              THEN <<[name |-> r.s, offset |-> e[2]]>> ELSE <<>>)
             \o NeededLibraries(Tail(entries), string_table)

RECURSIVE RpathRunpath(_, _)
\* ElfParser.get_rpath_runpath
RpathRunpath(entries, string_table) ==
    IF entries = <<>> THEN <<>>
    ELSE LET e == Head(entries)
             r == GetString(string_table, e[2])
         IN  (IF e[1] \in {DT_RPATH, DT_RUNPATH} /\ r.found /\ r.s # <<>>
              THEN <<[name |-> r.s, offset |-> e[2], tag |-> e[1]]>> ELSE <<>>)
             \o RpathRunpath(Tail(entries), string_table)

\* ParseRaises without the test of the magic.
ParseRaisesAnyMagic(f) == ~f.exists \/ ~f.hdr.complete

\* ElfParser.__enter__ raises: the file cannot be opened, its headers are cut
\* short, or its first four bytes are not the ELF magic.
ParseRaises(f) == ~f.exists \/ ~f.hdr.complete \/ f.hdr.magic # ElfMagic

\* What `with ElfParser(elf_path) as parser` gives modify_elf_file.
Analysis(f) ==
    LET d == FindDynamicSection(f.hdr)
        st == LoadStringTable(f, d.strtab_offset, d.strtab_size)
    IN  [needed_libs |-> NeededLibraries(d.dynamic_section, st),
         paths |-> RpathRunpath(d.dynamic_section, st),
         strtab_offset |-> d.strtab_offset]

\* ------------------------------------------------------------ the patch plan

\* LibMatches that searches the basename only.
LibMatchesBasename(pats, lib) == AnyMatch(pats, Basename(lib))

\* The library is matched: some pattern is found in its name.
LibMatches(pats, lib) == AnyMatch(pats, lib)

RECURSIVE ModifiedLibs(_, _)
\* modified_libs: (lib, basename, offset) of every matched library.
ModifiedLibs(needed_libs, pats) ==
    IF needed_libs = <<>> THEN <<>>
    ELSE LET l == Head(needed_libs)
         IN  (IF LibMatches(pats, l.name)
              THEN <<[old |-> l.name, new |-> Basename(l.name), offset |-> l.offset]>>
              ELSE <<>>)
             \o ModifiedLibs(Tail(needed_libs), pats)

RECURSIVE WithoutRepeats(_)
\* parts with every repeated component dropped after its first occurrence.
WithoutRepeats(parts) ==
    IF parts = <<>> THEN <<>>
    ELSE LET init == SubSeq(parts, 1, Len(parts) - 1)
             last == parts[Len(parts)]
         IN  WithoutRepeats(init)
             \o (IF \E k \in 1..Len(init) : init[k] = last THEN <<>> ELSE <<last>>)

\* NewPath that keeps each remaining component once.
NewPathDeduplicated(pats, path) ==
    JoinColon(WithoutRepeats(Unmatched(pats, SplitColon(path))))

\* new_path: the components no pattern matches, rejoined.
NewPath(pats, path) == JoinColon(Unmatched(pats, SplitColon(path)))

RECURSIVE ModifiedPaths(_, _)
\* modified_paths: (path, new_path, offset) of every path some pattern is found in.
ModifiedPaths(paths, pats) ==
    IF paths = <<>> THEN <<>>
    ELSE LET p == Head(paths)
         IN  (IF AnyMatch(pats, p.name)
              THEN <<[old |-> p.name, new |-> NewPath(pats, p.name), offset |-> p.offset]>>
              ELSE <<>>)
             \o ModifiedPaths(Tail(paths), pats)

\* ------------------------------------------------------ one plan entry's patch

\* The verification before the write: the text decoded from len(old) bytes at
\* abs_offset is the old text.
Verified(f, abs_offset, old) == Decode(ReadAt(f, abs_offset, Len(old))) = old

\* old_bytes: the old text and its terminator.
OldBytes(old) == Encode(old) \o <<0>>

\* TooLong with >= for >: an equal length is rejected too.
TooLongOrEqual(old, new) == Len(Encode(new)) + 1 >= Len(Encode(old)) + 1

\* len(new_bytes) > len(old_bytes): the entry is rejected.
TooLong(old, new) == Len(Encode(new)) + 1 > Len(OldBytes(old))

\* NewBytes without the padding.
NewBytesUnpadded(old, new) == Encode(new) \o <<0>>

\* new_bytes as written: the new text, its terminator, zeros up to len(old_bytes).
NewBytes(old, new) ==
    Encode(new) \o <<0>> \o Zeros(Len(OldBytes(old)) - (Len(Encode(new)) + 1))

\* The body of the patch loops for the n-th plan entry e on the open file f:
\* the file afterwards, the outcome, the error reported and the write done.
\* A write is logged with the bytes it found where it wrote.
PatchEntry(f, strtab_off, e, n) ==
    LET abs_offset == strtab_off + e.offset
    IN  IF ~Verified(f, abs_offset, e.old)
        THEN [file |-> f, outcome |-> "mismatch",
              error |-> <<[kind |-> "Verification failed", n |-> n]>>,
              write |-> <<>>]
        ELSE IF TooLong(e.old, e.new)
        THEN [file |-> f, outcome |-> "too_long",
              error |-> <<[kind |-> "longer than old", n |-> n]>>,
              write |-> <<>>]
        ELSE [file |-> WriteAt(f, abs_offset, NewBytes(e.old, e.new)),
              outcome |-> "written",
              error |-> <<>>,
              write |-> <<[at |-> abs_offset, bytes |-> NewBytes(e.old, e.new),
                           found |-> ReadAt(f, abs_offset, Len(OldBytes(e.old))),
                           entry |-> e, n |-> n]>>]

\* ------------------------------------------------- ElfParser on file bytes

\* Integers read from a file are kept exactly below Far; one of Far or more is
\* kept as Far, which lies beyond the end of every file considered.
Far == 16777216

\* The bytes bs in reverse order.
Reverse(bs) == [k \in 1..Len(bs) |-> bs[Len(bs) + 1 - k]]

RECURSIVE LEValue(_)
\* The unsigned integer whose little-endian bytes are bs.
LEValue(bs) ==
    IF bs = <<>> THEN 0
    ELSE LET rest == LEValue(Tail(bs))
         IN  IF rest >= 65536 THEN Far ELSE bs[1] + 256 * rest

\* struct.unpack of an unsigned field ('H', 'I', 'Q') in the byte order endian.
Unpack(bs, endian) == LEValue(IF endian = "<" THEN bs ELSE Reverse(bs))

\* struct.unpack of a signed field ('i', 'q'): two's complement.
UnpackSigned(bs, endian) ==
    LET le == IF endian = "<" THEN bs ELSE Reverse(bs)
    IN  IF le[Len(le)] < 128 THEN LEValue(le)
        ELSE -(LEValue([k \in 1..Len(le) |-> 255 - le[k]]) + 1)

RECURSIVE PackLE(_, _)
\* The w little-endian bytes of v.
PackLE(v, w) == IF w = 0 THEN <<>> ELSE <<v % 256>> \o PackLE(v \div 256, w - 1)

\* The w bytes of the unsigned integer v in the byte order endian.
Pack(v, w, endian) == IF endian = "<" THEN PackLE(v, w) ELSE Reverse(PackLE(v, w))

\* seek(off); read(n) on the bytes bs of a file: cut at the end of the file.
Read(bs, off, n) ==
    SubSeq(bs, off + 1, IF off + n > Len(bs) THEN Len(bs) ELSE off + n)

\* A read of n bytes at off comes back short, and struct.unpack (or ord) of
\* it raises.
Short(bs, off, n) == off + n > Len(bs)

\* The width in bytes of the fields 'I'/'Q' and 'i'/'q' for a bit width.
FieldWidth(bits) == IF bits = 32 THEN 4 ELSE 8

\* BitsOf that takes only class byte 1 for 32 bits.
BitsOfOnlyOne(ei_class) == IF ei_class = 1 THEN 32 ELSE 64

\* Line 69: self.bits from the class byte.
BitsOf(ei_class) == IF ei_class = 2 THEN 64 ELSE 32

\* Line 73: self.endian from the data byte.
EndianOf(ei_data) == IF ei_data = 2 THEN ">" ELSE "<"

\* ElfParser.__init__: the fields of a new parser, and the locals of
\* _find_dynamic_section.  found and loaded tell that dynamic_section and
\* string_table are not None; at is the position inside __enter__ and
\* stage the position at which an exception was raised.
NewParser ==
    [at |-> "header", stage |-> "none",
     endian |-> "<", bits |-> 32, strtab_offset |-> 0, strtab_size |-> 0,
     found |-> FALSE, dynamic_section |-> <<>>,
     loaded |-> FALSE, string_table |-> <<>>,
     e_shoff |-> 0, e_shentsize |-> 0, e_shnum |-> 0, i |-> 0,
     sh_offset |-> 0, num_entries |-> 0, j |-> 0,
     needed_libs |-> <<>>, paths |-> <<>>]

\* The parser p after an exception.
Raised(p) == [p EXCEPT !.at = "raised", !.stage = p.at]

\* ScanEntry that keeps the first DT_STRTAB and the first DT_STRSZ.
ScanEntryKeepFirst(p, d_tag, d_val) ==
    [p EXCEPT !.dynamic_section = Append(@, <<d_tag, d_val>>),
              !.strtab_offset = IF d_tag = DT_STRTAB /\ @ = 0 THEN d_val ELSE @,
              !.strtab_size = IF d_tag = DT_STRSZ /\ @ = 0 THEN d_val ELSE @]

\* Lines 122-128: the entry is appended; a DT_STRTAB or DT_STRSZ entry sets
\* the offset or the size of the string table.
ScanEntry(p, d_tag, d_val) ==
    [p EXCEPT !.dynamic_section = Append(@, <<d_tag, d_val>>),
              !.strtab_offset = IF d_tag = DT_STRTAB THEN d_val ELSE @,
              !.strtab_size = IF d_tag = DT_STRSZ THEN d_val ELSE @]

\* AfterDynamic that goes on with the next section.
AfterDynamicContinue(p) == [p EXCEPT !.at = "sections", !.i = @ + 1]

\* Line 130: break, after the dynamic section is read.
AfterDynamic(p) == [p EXCEPT !.at = "load"]

\* ------------------------------------------------------------------- state

VARIABLES
    elf,            \* the file at elf_path
    backup,         \* the file at elf_path + ".backup"
    temp_elf,       \* the file at temp_elf, inside temp_dir
    temp_dir,       \* TRUE while the directory made by mkdtemp exists
    patterns,       \* target_patterns, as given on the command line
    create_backup,  \* the create_backup argument
    pc,             \* where modify_elf_file is
    strtab_offset,  \* parser.strtab_offset, kept for the patch
    modified_libs,  \* the plan: library entries
    modified_paths, \* the plan: path entries
    idx,            \* the patch loops' position in the plan
    result,         \* what modify_elf_file returned: "none", "True", "False"
    stdout,         \* what print_info reported, as tags
    stderr,         \* what print_error reported
    writes,         \* every f.write of this run, in order
    outcomes,       \* what became of each plan entry handled so far
    backed_up,      \* the copy to the backup path was made in this run
    pre,            \* the file at elf_path when this run started
    run,            \* the number of this run
    last_result,    \* what the run before this one returned
    tampered,       \* another process changed the target during this run
    elf_file,       \* the bytes of the file an ElfParser has open
    built,          \* how the bytes of elf_file were laid out
    parser,         \* the fields of that ElfParser and its position
    quiet,          \* the global QUIET
    handles         \* the file handles that are open: "analysis", "patch"

vars == <<elf, backup, temp_elf, temp_dir, patterns, create_backup, pc,
          strtab_offset, modified_libs, modified_paths, idx, result,
          stdout, stderr, writes, outcomes, backed_up, pre, run, last_result, tampered,
          elf_file, built, parser, quiet, handles>>

\* An ElfParser entered on its own, outside a run of modify_elf_file.
parsing == <<elf_file, built, parser>>

\* What no step of modify_elf_file changes: its arguments, the global QUIET,
\* and a parser entered outside the run.
inputs == <<patterns, create_backup, parsing, quiet>>

\* print_info(message): the message reaches the output unless QUIET is set.
PrintInfo(out, message) == IF quiet THEN out ELSE Append(out, message)

\* print_error(message): the message reaches the error stream unless QUIET is
\* set.
PrintError(err, messages) == IF quiet THEN err ELSE err \o messages
files == <<elf, backup, temp_elf, temp_dir>>
plan == <<strtab_offset, modified_libs, modified_paths>>
history == <<pre, run, last_result, tampered>>

log == <<stdout, stderr, writes, outcomes>>

\* No ElfParser is entered outside the run.
NotParsing ==
    /\ elf_file = <<>>
    /\ built = <<>>
    /\ parser = NewParser

\* The plan as one sequence: the library entries, then the path entries.
Plan == modified_libs \o modified_paths

\* Both patch loops are over.
LoopsDone == idx > Len(Plan)

\* file_to_modify: the temporary copy when a backup is made, else the target.
\* FileToModify that always names the target.
FileToModifyTarget == "elf"
\* FileToModify that names the backup in place of the temporary copy.
FileToModifyBackup == IF create_backup THEN "backup" ELSE "elf"
FileToModify == IF create_backup THEN "temp_elf" ELSE "elf"

\* The file at a path.
FileAt(path) ==
    CASE path = "elf" -> elf
      [] path = "temp_elf" -> temp_elf
      [] path = "backup" -> backup

\* ------------------------------------------------------------------ inputs

\* The names stored in the string table of an input file, as bytes:
\* "a/b", "b", "a:b", an ill-formed byte then "/b", and U+00E9 then "/b".
Names == {<<97, 47, 98>>, <<98>>, <<97, 58, 98>>,
          <<255, 47, 98>>, <<195, 169, 47, 98>>}

\* The patterns of an input: the literal texts "a", "b" and ":".
Patterns == {<<97>>, <<98>>, <<58>>}

\* The tags of the dynamic entries that name a string.
StringTags == {DT_NEEDED, DT_RPATH, DT_RUNPATH}

\* The string table that holds the names ns: a leading NUL, then each name and
\* its terminator.
StringTableOf(ns) == <<0>> \o Concat([k \in 1..Len(ns) |-> ns[k] \o <<0>>])

\* The offset of the k-th name in StringTableOf(ns).
OffsetOf(ns, k) == Len(StringTableOf(SubSeq(ns, 1, k - 1)))

\* An ELF file with one dynamic section: an entry tagged tags[k] for each name,
\* then DT_STRTAB and DT_STRSZ.
ElfOf(ns, tags) ==
    [exists |-> TRUE,
     hdr |-> [complete |-> TRUE, magic |-> ElfMagic,
              sections |-> <<[sh_type |-> SHT_DYNAMIC,
                              entries |-> [k \in 1..Len(ns) |-> <<tags[k], OffsetOf(ns, k)>>]
                                          \o <<<<DT_STRTAB, HdrSize>>,
                                               <<DT_STRSZ, Len(StringTableOf(ns))>>>>]>>],
     data |-> StringTableOf(ns)]

\* The tags of the entries of an input file: any number of DT_NEEDED, at most
\* one DT_RPATH and at most one DT_RUNPATH.
TagLists(n) ==
    {tags \in [1..n -> StringTags] :
        \A t \in {DT_RPATH, DT_RUNPATH} : Cardinality({k \in 1..n : tags[k] = t}) <= 1}

\* The ELF files of an input: one to MaxStrings names, each under a tag.
ElfFiles ==
    {ElfOf(ns, tags) : <<ns, tags>> \in
        UNION {[1..n -> Names] \X TagLists(n) : n \in 1..MaxStrings}}

\* First four bytes that are not the ELF magic: the last byte differs, the
\* first byte differs.
BadMagics == {<<127, 69, 76, 71>>, <<0, 69, 76, 70>>}

\* Files that are not ELF files: a file with one name under each tag, with other
\* bytes where the magic is.
NotElfFiles ==
    {[ElfOf(<<n>>, <<t>>) EXCEPT !.hdr.magic = m] :
        n \in Names, t \in StringTags, m \in BadMagics}

\* A section type other than SHT_DYNAMIC (SHT_STRTAB).
SHT_OTHER == 3

\* ELF files without a dynamic section: a file with one name under each tag
\* whose section header table is empty, or whose only section holds the bytes
\* of a dynamic table under another type.
NoDynamicFiles ==
    {[ElfOf(<<n>>, <<t>>) EXCEPT !.hdr.sections = <<>>] : n \in Names, t \in StringTags}
    \cup {[ElfOf(<<n>>, <<t>>) EXCEPT !.hdr.sections[1].sh_type = SHT_OTHER] :
              n \in Names, t \in StringTags}

InputFiles == ElfFiles \cup NotElfFiles \cup NoDynamicFiles

\* The pattern lists of an input: one to MaxPatterns patterns, none twice, in
\* ascending order (any() does not depend on the order).
PatternLists ==
    {ps \in SeqsOf(Patterns, 1, MaxPatterns) :
        \A i, j \in 1..Len(ps) : i < j => ps[i][1] < ps[j][1]}

Init ==
    /\ elf \in InputFiles
    /\ patterns \in PatternLists
    /\ create_backup \in BOOLEAN
    /\ backup = NoFile
    /\ temp_elf = NoFile
    /\ temp_dir = FALSE
    /\ pc = "start"
    /\ strtab_offset = 0
    /\ modified_libs = <<>>
    /\ modified_paths = <<>>
    /\ idx = 1
    /\ result = "none"
    /\ stdout = <<>>
    /\ stderr = <<>>
    /\ writes = <<>>
    /\ outcomes = <<>>
    /\ backed_up = FALSE
    /\ pre = elf
    /\ run = 1
    /\ last_result = "none"
    /\ tampered = FALSE
    /\ NotParsing
    /\ quiet = FALSE
    /\ handles = {}

\* ------------------------------------------------------------------ actions

\* The handles open after ElfParser.__enter__ raised on f: __exit__ is not
\* called then, and the file opened at line 47 is closed only if the
\* interpreter finalizes the parser before the return; a file that could not
\* be opened leaves no handle.
LeftOpen(f) ==
    IF f.exists THEN {handles, handles \cup {"analysis"}} ELSE {handles}

\* Lines 189-232: parse the target and build the plan; an empty plan returns True.
Analyze ==
    /\ pc = "start"
    /\ IF ParseRaises(elf)
       THEN /\ pc' = "except"
            /\ handles' \in LeftOpen(elf)
            /\ UNCHANGED <<plan, result, stdout>>
       ELSE LET a == Analysis(elf)
                libs == ModifiedLibs(a.needed_libs, patterns)
                paths == ModifiedPaths(a.paths, patterns)
            IN  /\ strtab_offset' = a.strtab_offset
                /\ modified_libs' = libs
                /\ modified_paths' = paths
                /\ handles' = handles
                /\ IF libs = <<>> /\ paths = <<>>
                   THEN /\ stdout' = PrintInfo(stdout, "No modifications needed")
                        /\ result' = "True"
                        /\ pc' = "finally"
                   ELSE /\ pc' = "prepare"
                        /\ UNCHANGED <<result, stdout>>
    /\ UNCHANGED <<files, inputs, idx, stderr, writes, outcomes, backed_up, history>>

\* Lines 235-236 and 248-254: make the temporary directory, or open the target
\* for the patch.
Prepare ==
    /\ pc = "prepare"
    /\ IF create_backup
       THEN /\ temp_dir' = TRUE
            /\ pc' = "copy_temp"
            /\ handles' = handles
       ELSE /\ pc' = "patch"
            /\ handles' = handles \cup {"patch"}
            /\ UNCHANGED temp_dir
    /\ idx' = 1
    /\ UNCHANGED <<elf, backup, temp_elf, inputs, plan, result, stdout, stderr,
                   writes, outcomes, backed_up, history>>

\* tempfile.mkdtemp raises.
MkdtempRaises ==
    /\ pc = "prepare"
    /\ create_backup
    /\ pc' = "except"
    /\ UNCHANGED <<handles, files, inputs, plan, idx, result, stdout, stderr, writes, outcomes, backed_up, history>>

\* Line 239: shutil.copy2(elf_path, temp_elf).
CopyToTemp ==
    /\ pc = "copy_temp"
    /\ temp_elf' = elf
    /\ pc' = "copy_backup"
    /\ UNCHANGED <<handles, elf, backup, temp_dir, inputs, plan, idx, result, stdout, stderr,
                   writes, outcomes, backed_up, history>>

CopyToTempRaises ==
    /\ pc = "copy_temp"
    /\ temp_elf' \in PartialCopies(elf, temp_elf)
    /\ pc' = "except"
    /\ UNCHANGED <<handles, elf, backup, temp_dir, inputs, plan, idx, result, stdout, stderr,
                   writes, outcomes, backed_up, history>>

\* Lines 244-254: shutil.copy2(elf_path, backup_path); the temporary copy is
\* opened for the patch.
CopyToBackup ==
    /\ pc = "copy_backup"
    /\ backup' = elf
    /\ backed_up' = TRUE
    /\ pc' = "patch"
    /\ handles' = handles \cup {"patch"}
    /\ UNCHANGED <<elf, temp_elf, temp_dir, inputs, plan, idx, result, stdout, stderr,
                   writes, outcomes, history>>

CopyToBackupRaises ==
    /\ pc = "copy_backup"
    /\ backup' \in PartialCopies(elf, backup)
    /\ pc' = "except"
    /\ UNCHANGED <<handles, elf, temp_elf, temp_dir, inputs, plan, idx, result, stdout, stderr,
                   writes, outcomes, backed_up, history>>

\* The patch of one plan entry e, on the file that is being modified.
Patch(e) ==
    LET r == PatchEntry(FileAt(FileToModify), strtab_offset, e, idx)
    IN  /\ elf' = IF FileToModify = "elf" THEN r.file ELSE elf
        /\ temp_elf' = IF FileToModify = "temp_elf" THEN r.file ELSE temp_elf
        /\ backup' = IF FileToModify = "backup" THEN r.file ELSE backup
        /\ stderr' = PrintError(stderr, r.error)
        /\ writes' = writes \o r.write
        /\ outcomes' = Append(outcomes, r.outcome)
        /\ idx' = idx + 1
        /\ UNCHANGED <<temp_dir, inputs, plan, pc, result, stdout, backed_up, history, handles>>

\* Lines 256-288: one round of the library loop.
PatchLib ==
    /\ pc = "patch"
    /\ idx <= Len(modified_libs)
    /\ Patch(modified_libs[idx])

\* Lines 291-323: one round of the path loop.
PatchPath ==
    /\ pc = "patch"
    /\ idx > Len(modified_libs)
    /\ idx <= Len(Plan)
    /\ Patch(modified_paths[idx - Len(modified_libs)])

\* An I/O error inside `with open(file_to_modify, 'rb+')`: the open, a seek, a
\* read or a write raises.
PatchRaises ==
    /\ pc = "patch"
    /\ pc' = "except"
    /\ handles' = handles \ {"patch"}
    /\ UNCHANGED <<files, inputs, plan, idx, result, stdout, stderr, writes, outcomes, backed_up, history>>

\* Finish that returns False when an entry was skipped, and then leaves the
\* target as it is.
FinishFailsOnSkipped ==
    /\ pc = "patch"
    /\ LoopsDone
    /\ LET clean == \A k \in 1..Len(outcomes) : outcomes[k] = "written"
       IN  /\ IF create_backup /\ temp_elf.exists /\ clean
              THEN elf' = temp_elf
              ELSE UNCHANGED elf
           /\ stdout' = IF clean THEN PrintInfo(stdout, "ELF file successfully updated") ELSE stdout
           /\ result' = IF clean THEN "True" ELSE "False"
    /\ pc' = "finally"
    /\ handles' = handles \ {"patch"}
    /\ UNCHANGED <<backup, temp_elf, temp_dir, inputs, plan, idx, stderr, writes, outcomes, backed_up, history>>

\* Lines 325-331: both loops are over; copy the temporary file over the target.
Finish ==
    /\ pc = "patch"
    /\ LoopsDone
    /\ IF create_backup /\ temp_elf.exists
       THEN elf' = temp_elf
       ELSE UNCHANGED elf
    /\ stdout' = PrintInfo(stdout, "ELF file successfully updated")
    /\ result' = "True"
    /\ pc' = "finally"
    /\ handles' = handles \ {"patch"}
    /\ UNCHANGED <<backup, temp_elf, temp_dir, inputs, plan, idx, stderr, writes, outcomes, backed_up, history>>

\* Line 328 raises: the target is as it was or holds a copy cut short.
ReplaceRaises ==
    /\ pc = "patch"
    /\ LoopsDone
    /\ create_backup /\ temp_elf.exists
    /\ elf' \in PartialCopies(temp_elf, elf)
    /\ pc' = "except"
    /\ handles' = handles \ {"patch"}
    /\ UNCHANGED <<backup, temp_elf, temp_dir, inputs, plan, idx, result, stdout,
                   stderr, writes, outcomes, backed_up, history>>

\* Lines 333-335: any exception is reported and turned into False.
Except ==
    /\ pc = "except"
    /\ stderr' = PrintError(stderr, <<[kind |-> "Failed to modify ELF file", n |-> 0]>>)
    /\ result' = "False"
    /\ pc' = "finally"
    /\ UNCHANGED <<handles, files, inputs, plan, idx, stdout, writes, outcomes, backed_up, history>>

\* Finally as the last statement of the try block: the temporary directory is
\* removed only when nothing was raised.
FinallyAfterSuccess ==
    /\ pc = "finally"
    /\ IF temp_dir /\ result = "True"
       THEN temp_dir' = FALSE /\ temp_elf' = NoFile
       ELSE UNCHANGED <<temp_dir, temp_elf>>
    /\ pc' = "done"
    /\ UNCHANGED <<handles, elf, backup, inputs, plan, idx, result, stdout, stderr, writes, outcomes, backed_up, history>>

\* Lines 337-340: remove the temporary directory and what it holds; return.
Finally ==
    /\ pc = "finally"
    /\ IF temp_dir
       THEN temp_dir' = FALSE /\ temp_elf' = NoFile
       ELSE UNCHANGED <<temp_dir, temp_elf>>
    /\ pc' = "done"
    /\ UNCHANGED <<handles, elf, backup, inputs, plan, idx, result, stdout, stderr, writes, outcomes, backed_up, history>>

\* After a run that returned True, modify_elf_file is called again on the same
\* target with the same arguments.
Rerun ==
    /\ pc = "done"
    /\ result = "True"
    /\ run < MaxRuns
    /\ run' = run + 1
    /\ last_result' = result
    /\ pre' = elf
    /\ pc' = "start"
    /\ strtab_offset' = 0
    /\ modified_libs' = <<>>
    /\ modified_paths' = <<>>
    /\ idx' = 1
    /\ result' = "none"
    /\ stdout' = <<>>
    /\ stderr' = <<>>
    /\ writes' = <<>>
    /\ outcomes' = <<>>
    /\ backed_up' = FALSE
    /\ UNCHANGED <<handles, files, inputs, tampered>>

Next ==
    \/ Analyze
    \/ Prepare
    \/ MkdtempRaises
    \/ CopyToTemp
    \/ CopyToTempRaises
    \/ CopyToBackup
    \/ CopyToBackupRaises
    \/ PatchLib
    \/ PatchPath
    \/ PatchRaises
    \/ Finish
    \/ ReplaceRaises
    \/ Except
    \/ Finally
    \/ Rerun

Spec == Init /\ [][Next]_vars

\* ------------------------------------------------------------------- main

\* ELF files cut short inside the header: the magic is there, the rest of the
\* header is not.
TruncatedFiles ==
    {[ElfOf(<<n>>, <<t>>) EXCEPT !.hdr.complete = FALSE] : n \in Names, t \in StringTags}

\* What main is called on: a file with one name, a file without the magic, an
\* ELF file without a dynamic section or cut short, or a path with no file.
MainFiles ==
    {ElfOf(<<n>>, <<t>>) : n \in Names, t \in StringTags}
        \cup NotElfFiles \cup NoDynamicFiles \cup TruncatedFiles \cup {NoFile}

\* main after line 367: the arguments are parsed and QUIET is set from them.
InitMain ==
    /\ elf \in MainFiles
    /\ patterns \in PatternLists
    /\ create_backup \in BOOLEAN
    /\ quiet \in BOOLEAN
    /\ backup = NoFile
    /\ temp_elf = NoFile
    /\ temp_dir = FALSE
    /\ pc = "main"
    /\ strtab_offset = 0
    /\ modified_libs = <<>>
    /\ modified_paths = <<>>
    /\ idx = 1
    /\ result = "none"
    /\ stdout = <<>>
    /\ stderr = <<>>
    /\ writes = <<>>
    /\ outcomes = <<>>
    /\ backed_up = FALSE
    /\ pre = elf
    /\ run = 1
    /\ last_result = "none"
    /\ tampered = FALSE
    /\ NotParsing
    /\ handles = {}

\* Lines 369-387: a path with no file and a file without the magic end the
\* process with status 1; otherwise modify_elf_file is called.
MainChecks ==
    /\ pc = "main"
    /\ IF ~elf.exists
       THEN /\ stderr' = PrintError(stderr, <<[kind |-> "File not found", n |-> 0]>>)
            /\ pc' = "exit_1"
            /\ UNCHANGED stdout
       ELSE IF elf.hdr.magic # ElfMagic
       THEN /\ stderr' = PrintError(stderr, <<[kind |-> "Not an ELF file", n |-> 0]>>)
            /\ pc' = "exit_1"
            /\ UNCHANGED stdout
       ELSE /\ stdout' = PrintInfo(PrintInfo(stdout, "Processing ELF file"), "Target patterns")
            /\ pc' = "start"
            /\ UNCHANGED stderr
    /\ UNCHANGED <<handles, files, inputs, plan, idx, result, writes, outcomes, backed_up, history>>

\* Lines 381-383: the open or the read of the first four bytes raises.
MainReadRaises ==
    /\ pc = "main"
    /\ elf.exists
    /\ stderr' = PrintError(stderr, <<[kind |-> "Failed to read file", n |-> 0]>>)
    /\ pc' = "exit_1"
    /\ UNCHANGED <<handles, files, inputs, plan, idx, result, stdout, writes, outcomes, backed_up, history>>

\* The exit status whatever modify_elf_file returned.
ExitStatusAlwaysZero(returned) == "exit_0"

\* Lines 389-392: the exit status for what modify_elf_file returned.
ExitStatus(returned) == IF returned = "True" THEN "exit_0" ELSE "exit_1"

\* Lines 389-392: modify_elf_file has returned and the process exits.
MainExit ==
    /\ pc = "done"
    /\ pc' = ExitStatus(result)
    /\ UNCHANGED <<handles, files, inputs, plan, idx, result, log, backed_up, history>>

\* One run of the program, from main to the exit.
NextMain ==
    \/ MainChecks
    \/ MainReadRaises
    \/ Analyze
    \/ Prepare
    \/ MkdtempRaises
    \/ CopyToTemp
    \/ CopyToTempRaises
    \/ CopyToBackup
    \/ CopyToBackupRaises
    \/ PatchLib
    \/ PatchPath
    \/ PatchRaises
    \/ Finish
    \/ ReplaceRaises
    \/ Except
    \/ Finally
    \/ MainExit

SpecMain == InitMain /\ [][NextMain]_vars

\* ------------------------------------------ entries that share table bytes

\* The strings of a table with merged tails: a library with a directory and a
\* search path of two components.
SharedNames == {<<97, 47, 98>>, <<97, 58, 98>>}

\* ELF files whose string table holds one string n and whose two entries point
\* into it, each at its first character or at its last: at the same offset,
\* or one at the whole string and one at its tail.
SharedFiles ==
    UNION {{[ElfOf(<<n>>, <<tags[1]>>) EXCEPT !.hdr.sections[1].entries =
                <<<<tags[1], o1>>, <<tags[2], o2>>,
                  <<DT_STRTAB, HdrSize>>, <<DT_STRSZ, Len(StringTableOf(<<n>>))>>>>] :
              tags \in TagLists(2), o1 \in {1, Len(n)}, o2 \in {1, Len(n)}} :
           n \in SharedNames}

\* modify_elf_file called on a file whose entries share bytes.
InitShared ==
    /\ elf \in SharedFiles
    /\ patterns \in PatternLists
    /\ create_backup \in BOOLEAN
    /\ backup = NoFile
    /\ temp_elf = NoFile
    /\ temp_dir = FALSE
    /\ pc = "start"
    /\ strtab_offset = 0
    /\ modified_libs = <<>>
    /\ modified_paths = <<>>
    /\ idx = 1
    /\ result = "none"
    /\ stdout = <<>>
    /\ stderr = <<>>
    /\ writes = <<>>
    /\ outcomes = <<>>
    /\ backed_up = FALSE
    /\ pre = elf
    /\ run = 1
    /\ last_result = "none"
    /\ tampered = FALSE
    /\ NotParsing
    /\ quiet = FALSE
    /\ handles = {}

\* The runs in which nothing raises.
NextShared ==
    \/ Analyze
    \/ Prepare
    \/ CopyToTemp
    \/ CopyToBackup
    \/ PatchLib
    \/ PatchPath
    \/ Finish
    \/ Finally

SpecShared == InitShared /\ [][NextShared]_vars

\* ---------------------------------------- the target changed by someone else

\* The bytes another process may put into the target.
TamperBytes == {0, 120}

\* Between the analysis and the patch another process overwrites one byte of
\* the target.
Tamper ==
    /\ pc = "prepare"
    /\ ~tampered
    /\ \E k \in 1..Len(elf.data), v \in TamperBytes :
          /\ elf.data[k] # v
          /\ elf' = [elf EXCEPT !.data[k] = v]
    /\ tampered' = TRUE
    /\ UNCHANGED <<handles, backup, temp_elf, temp_dir, inputs, plan, pc, idx, result, log,
                   backed_up, pre, run, last_result>>

\* The runs in which nothing raises, with the target changed under them.
NextTamper ==
    \/ Analyze
    \/ Tamper
    \/ Prepare
    \/ CopyToTemp
    \/ CopyToBackup
    \/ PatchLib
    \/ PatchPath
    \/ Finish
    \/ Finally

SpecTamper == Init /\ [][NextTamper]_vars

\* --------------------------------------------- the patch loops on any plan

\* How a hand-made plan entry replaces the old text: by a text one byte longer,
\* by a text with another first character, by a shorter text.
ReplacementKinds == {"grown", "changed", "shrunk"}

Replacement(old, kind) ==
    CASE kind = "grown" -> old \o <<120>>
      [] kind = "changed" -> [old EXCEPT ![1] = 120]
      [] kind = "shrunk" -> Tail(old)

\* The plans over the resolved entries `items`, one entry each, with any
\* replacement.
PlansOver(items) ==
    {[k \in 1..Len(items) |->
        [old |-> items[k].name, new |-> Replacement(items[k].name, kinds[k]),
         offset |-> items[k].offset]] : kinds \in [1..Len(items) -> ReplacementKinds]}

\* modify_elf_file at line 254, about to patch, with a plan that need not come
\* from the matcher.
InitLoop ==
    /\ elf \in ElfFiles
    /\ patterns = <<>>
    /\ create_backup \in BOOLEAN
    /\ backup = (IF create_backup THEN elf ELSE NoFile)
    /\ temp_elf = (IF create_backup THEN elf ELSE NoFile)
    /\ temp_dir = create_backup
    /\ pc = "patch"
    /\ strtab_offset = Analysis(elf).strtab_offset
    /\ modified_libs \in PlansOver(Analysis(elf).needed_libs)
    /\ modified_paths \in PlansOver(Analysis(elf).paths)
    /\ idx = 1
    /\ result = "none"
    /\ stdout = <<>>
    /\ stderr = <<>>
    /\ writes = <<>>
    /\ outcomes = <<>>
    /\ backed_up = create_backup
    /\ pre = elf
    /\ run = 1
    /\ last_result = "none"
    /\ tampered = FALSE
    /\ NotParsing
    /\ quiet = FALSE
    /\ handles = {"patch"}

NextLoop ==
    \/ PatchLib
    \/ PatchPath
    \/ Finish
    \/ Finally
    \/ MainExit

SpecLoop == InitLoop /\ [][NextLoop]_vars

\* ------------------------------------------- search paths of many components

\* Most colon-delimited components of a search path of an input of SpecPaths.
MaxComponents == 3

\* The components a search path is made of: "a", "b" and the empty component.
PathComponents == {<<97>>, <<98>>, <<>>}

\* The search path values "a", "a:b", "b::a", ...
PathValues == {JoinColon(cs) : cs \in SeqsOf(PathComponents, 1, MaxComponents)}

\* The files with one search path entry, DT_RPATH or DT_RUNPATH.
PathFiles == {ElfOf(<<p>>, <<t>>) : p \in PathValues, t \in {DT_RPATH, DT_RUNPATH}}

\* modify_elf_file called on a file with one search path.
InitPaths ==
    /\ elf \in PathFiles
    /\ patterns \in PatternLists
    /\ create_backup \in BOOLEAN
    /\ backup = NoFile
    /\ temp_elf = NoFile
    /\ temp_dir = FALSE
    /\ pc = "start"
    /\ strtab_offset = 0
    /\ modified_libs = <<>>
    /\ modified_paths = <<>>
    /\ idx = 1
    /\ result = "none"
    /\ stdout = <<>>
    /\ stderr = <<>>
    /\ writes = <<>>
    /\ outcomes = <<>>
    /\ backed_up = FALSE
    /\ pre = elf
    /\ run = 1
    /\ last_result = "none"
    /\ tampered = FALSE
    /\ NotParsing
    /\ quiet = FALSE
    /\ handles = {}

\* The runs in which nothing raises; the plan has no library.
NextPaths ==
    \/ Analyze
    \/ Prepare
    \/ CopyToTemp
    \/ CopyToBackup
    \/ PatchPath
    \/ Finish
    \/ Finally

SpecPaths == InitPaths /\ [][NextPaths]_vars

\* ------------------------------------------- the layout of a file in bytes

\* The sizes of the ELF header, of a section header and of a dynamic entry.
EhdrSize(bits) == IF bits = 32 THEN 52 ELSE 64
ShdrSize(bits) == IF bits = 32 THEN 40 ELSE 64
DynSize(bits) == IF bits = 32 THEN 8 ELSE 16

\* The two string tables every built file ends with: "a/b" with its terminator
\* after a leading NUL, and "b" followed by "c", which the end of the file cuts
\* before a terminator.
Table1 == <<0, 97, 47, 98, 0>>
Table2 == <<0, 98, 0, 99>>

\* The number of dynamic entries of the sections before the k-th.
EntriesBefore(sections, k) ==
    Len(Concat([j \in 1..(k - 1) |-> sections[j].entries]))

\* The file offset of the content of the k-th section of the built file b.
DynAt(b, k) ==
    EhdrSize(b.bits) + Len(b.sections) * ShdrSize(b.bits)
        + DynSize(b.bits) * EntriesBefore(b.sections, k)

\* The file offset of string table t (1 or 2) of the built file b.
TableAt(b, t) ==
    DynAt(b, Len(b.sections) + 1) + (IF t = 1 THEN 0 ELSE Len(Table1))

\* The dynamic entry e as stored: a DT_STRTAB entry names its table by number
\* in b and holds that table's file offset in the file.
Stored(b, e) == IF e[1] = DT_STRTAB THEN <<DT_STRTAB, TableAt(b, e[2])>> ELSE e

\* The ELF header: magic, class byte, data byte, e_shoff at 32 or 40, then
\* e_shentsize, e_shnum and e_shstrndx at 46 or 58.
Ehdr(b) ==
    b.magic \o <<b.ei_class, b.ei_data>>
    \o Zeros(IF b.bits = 32 THEN 26 ELSE 34)
    \o Pack(EhdrSize(b.bits), FieldWidth(b.bits), b.endian)
    \o Zeros(10)
    \o Pack(ShdrSize(b.bits), 2, b.endian)
    \o Pack(Len(b.sections), 2, b.endian)
    \o Pack(0, 2, b.endian)

\* The k-th section header: sh_type at 4, sh_offset and sh_size at 16 or 24.
Shdr(b, k) ==
    Zeros(4)
    \o Pack(b.sections[k].sh_type, 4, b.endian)
    \o Zeros(IF b.bits = 32 THEN 8 ELSE 16)
    \o Pack(DynAt(b, k), FieldWidth(b.bits), b.endian)
    \o Pack(DynSize(b.bits) * Len(b.sections[k].entries), FieldWidth(b.bits), b.endian)
    \o Zeros(IF b.bits = 32 THEN 16 ELSE 24)

\* The content of the k-th section: its entries, d_tag then d_val.
Dyn(b, k) ==
    LET es == b.sections[k].entries
    IN  Concat([j \in 1..Len(es) |->
                    Pack(Stored(b, es[j])[1], FieldWidth(b.bits), b.endian)
                    \o Pack(Stored(b, es[j])[2], FieldWidth(b.bits), b.endian)])

\* The bytes of the built file b.
Build(b) ==
    Ehdr(b)
    \o Concat([k \in 1..Len(b.sections) |-> Shdr(b, k)])
    \o Concat([k \in 1..Len(b.sections) |-> Dyn(b, k)])
    \o Table1 \o Table2

\* ------------------------------------------------------ the files to parse

\* Most sections of a built file.
MaxSections == 2
\* Most DT_STRTAB and DT_STRSZ entries of a dynamic table.
MaxLocators == 3

\* The class byte and the data byte the ELF format gives a layout.
StdClass(bits) == IF bits = 64 THEN 2 ELSE 1
StdData(endian) == IF endian = ">" THEN 2 ELSE 1

\* The entries of a dynamic table that name strings, by offset into the string
\* table: 1 ("a/b" or "b"), 0 (a NUL: the empty string), 3, 7 (past the end).
NameEntries ==
    <<<<DT_NEEDED, 1>>, <<DT_NEEDED, 0>>, <<DT_RPATH, 3>>,
      <<DT_RUNPATH, 0>>, <<DT_NEEDED, 7>>>>

\* The entries that locate the string table: table 1 or 2, size 3 or 5.
Locators == {<<DT_STRTAB, 1>>, <<DT_STRTAB, 2>>, <<DT_STRSZ, 3>>, <<DT_STRSZ, 5>>}

\* The dynamic tables: the name entries, after the first locator and before
\* the others.
DynamicTables ==
    {IF ls = <<>> THEN NameEntries ELSE <<Head(ls)>> \o NameEntries \o Tail(ls) :
        ls \in SeqsOf(Locators, 0, MaxLocators)}

\* The content of every section but the first dynamic one.
LaterTable == <<<<DT_STRTAB, 2>>, <<DT_STRSZ, 3>>, <<DT_NEEDED, 1>>>>

\* The section lists in which the first dynamic section holds table.
SectionLists(table) ==
    {[k \in 1..Len(kinds) |->
        [sh_type |-> kinds[k],
         entries |-> IF kinds[k] = SHT_DYNAMIC
                        /\ \A j \in 1..(k - 1) : kinds[j] # SHT_DYNAMIC
                     THEN table ELSE LaterTable]] :
        kinds \in SeqsOf({SHT_DYNAMIC, SHT_OTHER}, 0, MaxSections)}

\* Files built as 32- or 64-bit, little- or big-endian, with the class and
\* data bytes of their layout.
WellFormed ==
    {[bits |-> bits, endian |-> endian,
      ei_class |-> StdClass(bits), ei_data |-> StdData(endian),
      magic |-> ElfMagic, sections |-> ss] :
        bits \in {32, 64}, endian \in {"<", ">"},
        ss \in UNION {SectionLists(t) : t \in DynamicTables}}

\* The values of a class or data byte: none, the two of the format, another.
IdentBytes == {0, 1, 2, 3}

\* Files of every layout with any class byte, data byte and magic, and one
\* dynamic section.
OddHeaders ==
    {[bits |-> bits, endian |-> endian, ei_class |-> c, ei_data |-> d,
      magic |-> m,
      sections |-> <<[sh_type |-> SHT_DYNAMIC,
                      entries |-> <<<<DT_STRTAB, 1>>, <<DT_STRSZ, 5>>>> \o NameEntries]>>] :
        bits \in {32, 64}, endian \in {"<", ">"},
        c \in IdentBytes, d \in IdentBytes, m \in {ElfMagic} \cup BadMagics}

\* --------------------------------------------------- ElfParser, step by step

\* The state of modify_elf_file, which an ElfParser on its own leaves alone.
running == <<files, patterns, create_backup, plan, pc, idx, result, log,
             backed_up, history, quiet, handles>>

\* An ElfParser is made for a built file; modify_elf_file is not called.
InitParse ==
    /\ built \in WellFormed \cup OddHeaders
    /\ elf_file = Build(built)
    /\ parser = NewParser
    /\ elf = NoFile
    /\ backup = NoFile
    /\ temp_elf = NoFile
    /\ temp_dir = FALSE
    /\ patterns = <<>>
    /\ create_backup = FALSE
    /\ pc = "start"
    /\ strtab_offset = 0
    /\ modified_libs = <<>>
    /\ modified_paths = <<>>
    /\ idx = 1
    /\ result = "none"
    /\ stdout = <<>>
    /\ stderr = <<>>
    /\ writes = <<>>
    /\ outcomes = <<>>
    /\ backed_up = FALSE
    /\ pre = NoFile
    /\ run = 1
    /\ last_result = "none"
    /\ tampered = FALSE
    /\ quiet = FALSE
    /\ handles = {}

\* Lines 57-73: _parse_elf_header.
ParseElfHeader ==
    /\ parser.at = "header"
    /\ parser' =
          IF Read(elf_file, 0, 4) # ElfMagic
                \/ Short(elf_file, 4, 1) \/ Short(elf_file, 5, 1)
          THEN Raised(parser)
          ELSE [parser EXCEPT !.bits = BitsOf(Read(elf_file, 4, 1)[1]),
                              !.endian = EndianOf(Read(elf_file, 5, 1)[1]),
                              !.at = "table"]
    /\ UNCHANGED <<elf_file, built, running>>

\* Lines 77-89: e_shoff, e_shentsize and e_shnum are read from the header.
ReadSectionTable ==
    /\ parser.at = "table"
    /\ LET w == FieldWidth(parser.bits)
           off == IF parser.bits = 32 THEN 32 ELSE 40
           hoff == IF parser.bits = 32 THEN 46 ELSE 58
       IN  parser' =
              IF Short(elf_file, off, w) \/ Short(elf_file, hoff, 6)
              THEN Raised(parser)
              ELSE [parser EXCEPT
                       !.e_shoff = Unpack(Read(elf_file, off, w), parser.endian),
                       !.e_shentsize = Unpack(Read(elf_file, hoff, 2), parser.endian),
                       !.e_shnum = Unpack(Read(elf_file, hoff + 2, 2), parser.endian),
                       !.i = 0,
                       !.at = "sections"]
    /\ UNCHANGED <<elf_file, built, running>>

\* Lines 92-112: one round of the loop over the section headers.
FindSection ==
    /\ parser.at = "sections"
    /\ LET w == FieldWidth(parser.bits)
           base == parser.e_shoff + parser.i * parser.e_shentsize
           fo == base + (IF parser.bits = 32 THEN 16 ELSE 24)
           sh_type == Unpack(Read(elf_file, base + 4, 4), parser.endian)
           sh_offset == Unpack(Read(elf_file, fo, w), parser.endian)
           sh_size == Unpack(Read(elf_file, fo + w, w), parser.endian)
           dyn == [parser EXCEPT !.found = TRUE,
                                 !.dynamic_section = <<>>,
                                 !.sh_offset = sh_offset,
                                 !.num_entries = sh_size \div DynSize(parser.bits),
                                 !.j = 0]
       IN  parser' =
              IF parser.i >= parser.e_shnum THEN [parser EXCEPT !.at = "load"]
              ELSE IF Short(elf_file, base + 4, 4) THEN Raised(parser)
              ELSE IF sh_type # SHT_DYNAMIC THEN [parser EXCEPT !.i = @ + 1]
              ELSE IF Short(elf_file, fo, w) \/ Short(elf_file, fo + w, w)
                   THEN Raised(parser)
              ELSE IF dyn.num_entries = 0 THEN AfterDynamic(dyn)
              ELSE [dyn EXCEPT !.at = "entries"]
    /\ UNCHANGED <<elf_file, built, running>>

\* Lines 114-130: one round of the loop over the dynamic entries.
ReadEntry ==
    /\ parser.at = "entries"
    /\ LET w == FieldWidth(parser.bits)
           off == parser.sh_offset + parser.j * DynSize(parser.bits)
           d_tag == UnpackSigned(Read(elf_file, off, w), parser.endian)
           d_val == Unpack(Read(elf_file, off + w, w), parser.endian)
           next == ScanEntry([parser EXCEPT !.j = @ + 1], d_tag, d_val)
       IN  parser' =
              IF Short(elf_file, off, w) \/ Short(elf_file, off + w, w)
              THEN Raised(parser)
              ELSE IF next.j = next.num_entries THEN AfterDynamic(next)
              ELSE next
    /\ UNCHANGED <<elf_file, built, running>>

\* Lines 132-138: _load_string_table.
LoadTable ==
    /\ parser.at = "load"
    /\ parser' =
          IF parser.strtab_offset # 0 /\ parser.strtab_size # 0
          THEN [parser EXCEPT
                   !.loaded = TRUE,
                   !.string_table = Read(elf_file, parser.strtab_offset, parser.strtab_size),
                   !.at = "ready"]
          ELSE [parser EXCEPT !.at = "ready"]
    /\ UNCHANGED <<elf_file, built, running>>

\* Lines 193-194: get_needed_libraries and get_rpath_runpath on the entered
\* parser.
GetLists ==
    /\ parser.at = "ready"
    /\ parser' =
          [parser EXCEPT
              !.needed_libs = IF parser.dynamic_section = <<>> THEN <<>>
                              ELSE NeededLibraries(parser.dynamic_section, parser.string_table),
              !.paths = IF parser.dynamic_section = <<>> THEN <<>>
                        ELSE RpathRunpath(parser.dynamic_section, parser.string_table),
              !.at = "done"]
    /\ UNCHANGED <<elf_file, built, running>>

NextParse ==
    \/ ParseElfHeader
    \/ ReadSectionTable
    \/ FindSection
    \/ ReadEntry
    \/ LoadTable
    \/ GetLists

SpecParse == InitParse /\ [][NextParse]_vars

\* ------------------------------------------------------------------ claims

\* The plan entry the patch loops handle next.
CurrentEntry == Plan[idx]

\* A step of the patch loops: one plan entry is handled.
PatchStep == pc = "patch" /\ ~LoopsDone /\ idx' = idx + 1

\* The bytes of the file being modified where the entry e lies, over the
\* length of old_bytes.
OnDisk(e) == ReadAt(FileAt(FileToModify), strtab_offset + e.offset, Len(Encode(e.old)) + 1)

\* The write w was of a library entry.
IsLibWrite(w) == w.n <= Len(modified_libs)

\* C1: an entry is written only if the terminator of the old string was found
\* on disk: whenever the bytes found where a write went hold the old text, the
\* byte after them was NUL.
C1_TerminatorVerified ==
    \A k \in 1..Len(writes) :
        LET w == writes[k]
            text == Encode(w.entry.old)
        IN  (Len(w.found) >= Len(text) /\ SubSeq(w.found, 1, Len(text)) = text)
                => w.found = text \o <<0>>

\* C2: every write is the replacement text, one NUL, then zeros up to the length
\* of the old text plus terminator, and these bytes are what the file holds at
\* the place of the last write.
C2_WriteIsPaddedReplacement ==
    /\ \A k \in 1..Len(writes) :
          LET w == writes[k]
              new == Encode(w.entry.new)
          IN  /\ Len(w.bytes) = Len(Encode(w.entry.old)) + 1
              /\ Len(new) < Len(w.bytes)
              /\ SubSeq(w.bytes, 1, Len(new)) = new
              /\ \A j \in (Len(new) + 1)..Len(w.bytes) : w.bytes[j] = 0
    /\ (pc = "patch" /\ writes # <<>>) =>
          LET w == writes[Len(writes)]
          IN  ReadAt(FileAt(FileToModify), w.at, Len(w.bytes)) = w.bytes

\* C2's case: a write whose replacement is shorter than the old text, so that
\* padding follows the terminator.
C2_Witness ==
    \E k \in 1..Len(writes) :
        Len(Encode(writes[k].entry.new)) + 1 < Len(writes[k].bytes)

\* C3: a verified entry whose replacement with terminator is longer than the old
\* text with terminator is not written: the files stay as they are, an error is
\* reported and the loop goes on; one of exactly the old length is written.
C3_LongerRejectedEqualWritten ==
    [][(PatchStep /\ Verified(FileAt(FileToModify), strtab_offset + CurrentEntry.offset,
                              CurrentEntry.old)) =>
        LET e == CurrentEntry
            newlen == Len(Encode(e.new)) + 1
            oldlen == Len(Encode(e.old)) + 1
        IN  /\ newlen > oldlen =>
                /\ UNCHANGED <<files, writes>>
                /\ stderr' = Append(stderr, [kind |-> "longer than old", n |-> idx])
                /\ pc' = "patch"
            /\ newlen = oldlen =>
                /\ Len(writes') = Len(writes) + 1
                /\ writes'[Len(writes')].bytes = Encode(e.new) \o <<0>>
                /\ ReadAt(FileAt(FileToModify)', strtab_offset + e.offset, newlen)
                       = Encode(e.new) \o <<0>>
      ]_vars

\* C3's case: an entry with a longer replacement was rejected and a later entry
\* of exactly the old length was written.
C3_Witness ==
    \E i, j \in 1..Len(outcomes) :
        /\ i < j
        /\ outcomes[i] = "too_long"
        /\ outcomes[j] = "written"
        /\ Len(Encode(Plan[j].new)) = Len(Encode(Plan[j].old))
        /\ Plan[j].new # Plan[j].old

\* C4: when the target was changed after the analysis, an entry whose bytes on
\* disk are not old_bytes leaves the file as it is and is reported, and every
\* entry whose bytes on disk are old_bytes is written.
C4_MismatchSkippedIntactApplied ==
    [][(PatchStep /\ tampered) =>
        IF OnDisk(CurrentEntry) = Encode(CurrentEntry.old) \o <<0>>
        THEN outcomes' = Append(outcomes, "written")
        ELSE /\ UNCHANGED files
             /\ stderr' = Append(stderr, [kind |-> "Verification failed", n |-> idx])
      ]_vars

\* C5: with a backup requested the target keeps its pre-run content until both
\* loops are over; it changes only in the step after them, to the modified
\* copy when that step does not raise; it is unchanged when the patch raised.
C5_TargetIntactUntilLoopsDone ==
    /\ [](create_backup /\ elf # pre =>
            pc \in {"except", "finally", "done"} /\ LoopsDone /\ Plan # <<>>)
    /\ [][create_backup /\ elf' # elf =>
            /\ pc = "patch" /\ LoopsDone
            /\ pc' = "finally" => elf' = temp_elf
         ]_vars

\* C5's case: a patch was written to the temporary copy while the target still
\* holds its pre-run content.
C5_Witness ==
    /\ create_backup
    /\ pc = "patch"
    /\ writes # <<>>
    /\ temp_elf # elf
    /\ elf = pre

NothingMatches(f) ==
    LET a == Analysis(f)
    IN  /\ ~ParseRaises(f)
        /\ \A k \in 1..Len(a.needed_libs) : ~AnyMatch(patterns, a.needed_libs[k].name)
        /\ \A k \in 1..Len(a.paths) :
              \A c \in 1..Len(SplitColon(a.paths[k].name)) :
                  ~AnyMatch(patterns, SplitColon(a.paths[k].name)[c])

\* C7: when nothing is matched the first run returns True, the target is
\* untouched and neither a backup nor a temporary copy is ever made.
C7_NoMatchNoBackup ==
    (run = 1 /\ NothingMatches(pre)) =>
        /\ elf = pre
        /\ backup = NoFile
        /\ temp_elf = NoFile
        /\ ~temp_dir
        /\ pc = "done" => result = "True"

\* C8: a run that returns after a successful run with the same patterns has
\* built an empty plan, reported that nothing needs to change and written
\* nothing.
C8_SecondRunEmptyPlan ==
    (run >= 2 /\ last_result = "True" /\ pc = "done" /\ result = "True") =>
        /\ Plan = <<>>
        /\ writes = <<>>
        /\ stdout = <<"No modifications needed">>

\* C9: after a successful run, every library written with a shorter basename
\* parses from the target with that basename at its offset, and zeros fill the
\* rest of the old extent.
C9_RewrittenLibReparses ==
    (pc = "done" /\ result = "True") =>
        \A k \in 1..Len(writes) :
            LET w == writes[k]
                libs == Analysis(elf).needed_libs
                new == Encode(w.entry.new)
            IN  (IsLibWrite(w) /\ Len(new) < Len(Encode(w.entry.old))) =>
                    /\ \E i \in 1..Len(libs) :
                          libs[i] = [name |-> w.entry.new, offset |-> w.entry.offset]
                    /\ ReadAt(elf, w.at + Len(new), Len(w.bytes) - Len(new))
                           = Zeros(Len(w.bytes) - Len(new))

\* p occurs somewhere in the text s.
OccursIn(p, s) == \E i, j \in 0..Len(s) : i <= j /\ SubSeq(s, i + 1, j) = p

\* b is what follows the last '/' of s.
IsBasenameOf(b, s) ==
    /\ \A k \in 1..Len(b) : b[k] # 47
    /\ \/ b = s
       \/ /\ Len(s) > Len(b)
          /\ SubSeq(s, Len(s) - Len(b) + 1, Len(s)) = b
          /\ s[Len(s) - Len(b)] = 47

\* C10: when the plan has just been built, the libraries in it are those of the target in
\* whose name a pattern occurs, each with its basename as replacement; a
\* successful run leaves the dynamic table as it was.
C10_MatchedLibsToBasename ==
    LET needed == Analysis(pre).needed_libs
        selected(l) == \E j \in 1..Len(modified_libs) :
                          /\ modified_libs[j].old = l.name
                          /\ modified_libs[j].offset = l.offset
    IN  /\ (pc = "prepare" \/ (pc = "finally" /\ stdout = <<"No modifications needed">>)) =>
            /\ \A k \in 1..Len(needed) :
                  selected(needed[k]) <=>
                      \E p \in 1..Len(patterns) : OccursIn(patterns[p], needed[k].name)
            /\ \A j \in 1..Len(modified_libs) :
                  /\ \E k \in 1..Len(needed) :
                        /\ needed[k].name = modified_libs[j].old
                        /\ needed[k].offset = modified_libs[j].offset
                  /\ IsBasenameOf(modified_libs[j].new, modified_libs[j].old)
        /\ (pc = "done" /\ result = "True") => elf.hdr = pre.hdr

\* C10's case: of two libraries one is matched and planned with a basename that
\* differs from its name, the other is not matched.
C10_Witness ==
    /\ pc = "prepare"
    /\ Len(Analysis(pre).needed_libs) > Len(modified_libs)
    /\ \E j \in 1..Len(modified_libs) : modified_libs[j].new # modified_libs[j].old

\* The positions of the ':' in s.
Colons(s) == {k \in 1..Len(s) : s[k] = 58}

\* The position of the k-th ':' of s; 0 for k = 0 and one past the end of s
\* when s has fewer than k.
ColonAt(s, k) ==
    CHOOSE p \in Colons(s) \cup {0, Len(s) + 1} :
        Cardinality({q \in Colons(s) \cup {0} : q < p}) = k

\* The number of colon-delimited components of s.
NumComponents(s) == Cardinality(Colons(s)) + 1

\* The k-th colon-delimited component of s.
Component(s, k) == SubSeq(s, ColonAt(s, k - 1) + 1, ColonAt(s, k) - 1)

\* Some pattern occurs in the k-th component of s.
ComponentMatched(s, k) ==
    \E p \in 1..Len(patterns) : OccursIn(patterns[p], Component(s, k))

\* The plan has just been built.
PlanBuilt == pc = "prepare" \/ (pc = "finally" /\ stdout = <<"No modifications needed">>)

\* C11: no library entry of the plan has its own name as replacement: a matched
\* library without a directory part is not in the plan.
C11_NoDirNoPlanEntry ==
    \A j \in 1..Len(modified_libs) : modified_libs[j].new # modified_libs[j].old

\* C12: when the plan has just been built, the search paths in it are those of
\* the target with at least one component in which a pattern occurs.
C12_PathPlannedIffComponentMatched ==
    PlanBuilt =>
        LET paths == Analysis(pre).paths
        IN  \A k \in 1..Len(paths) :
                (\E j \in 1..Len(modified_paths) :
                    /\ modified_paths[j].old = paths[k].name
                    /\ modified_paths[j].offset = paths[k].offset)
                <=> \E c \in 1..NumComponents(paths[k].name) :
                        ComponentMatched(paths[k].name, c)

\* The components of s that no pattern occurs in, by index.
KeptComponents(s) == {k \in 1..NumComponents(s) : ~ComponentMatched(s, k)}

\* The index of the i-th kept component of s.
KeptAt(s, i) ==
    CHOOSE k \in KeptComponents(s) :
        Cardinality({q \in KeptComponents(s) : q < k}) = i - 1

\* new is s with the matched components removed: the kept components of s in
\* their order, none dropped, joined by ':'; the empty text when none is kept.
IsWithoutMatched(new, s) ==
    IF KeptComponents(s) = {} THEN new = <<>>
    ELSE /\ NumComponents(new) = Cardinality(KeptComponents(s))
         /\ \A i \in 1..NumComponents(new) :
               Component(new, i) = Component(s, KeptAt(s, i))

\* C13: the replacement of every planned search path is the path without its
\* matched components, the others in order and undeduplicated; an entry whose
\* replacement is empty is patched like any other: after the loops the file
\* holds only zeros over the old text and its terminator.
C13_MatchedComponentsRemoved ==
    /\ \A j \in 1..Len(modified_paths) :
          IsWithoutMatched(modified_paths[j].new, modified_paths[j].old)
    /\ (pc = "done" /\ result = "True") =>
          \A j \in 1..Len(modified_paths) :
              LET e == modified_paths[j]
              IN  e.new = <<>> =>
                      /\ outcomes[Len(modified_libs) + j] = "written"
                      /\ ReadAt(elf, strtab_offset + e.offset, Len(e.old) + 1)
                             = Zeros(Len(e.old) + 1)

\* C13's case: a path of three components lost its matched one and keeps two
\* equal components, and was written.
C13_Witness ==
    /\ pc = "done"
    /\ \E j \in 1..Len(modified_paths) :
          LET e == modified_paths[j]
          IN  /\ NumComponents(e.old) = 3
              /\ NumComponents(e.new) = 2
              /\ Component(e.new, 1) = Component(e.new, 2)
              /\ Component(e.new, 1) # <<>>
              /\ outcomes[Len(modified_libs) + j] = "written"
              /\ Analysis(elf).paths = <<[name |-> e.new, offset |-> e.offset,
                                          tag |-> Analysis(pre).paths[1].tag]>>

\* C14: on a target whose first four bytes are not the ELF magic the run builds
\* no plan, keeps the string-table offset unset, creates and changes no file,
\* writes nothing and returns False.
C14_BadMagicFailsUntouched ==
    (run = 1 /\ pre.hdr.magic # ElfMagic) =>
        /\ Plan = <<>>
        /\ strtab_offset = 0
        /\ elf = pre
        /\ backup = NoFile
        /\ temp_elf = NoFile
        /\ ~temp_dir
        /\ writes = <<>>
        /\ pc \in {"start", "except", "finally", "done"}
        /\ result # "True"
        /\ pc = "done" => result = "False"

\* C14's case: the run on a file without the magic, which holds a name that a
\* pattern occurs in, has returned False.
C14_Witness ==
    /\ pc = "done"
    /\ result = "False"
    /\ pre.hdr.magic # ElfMagic
    /\ \E p \in 1..Len(patterns) :
          OccursIn(patterns[p], Decode(SubSeq(pre.data, 2, Len(pre.data) - 1)))
    /\ stderr = <<[kind |-> "Failed to modify ELF file", n |-> 0]>>

\* f has no section of type SHT_DYNAMIC.
HasNoDynamicSection(f) ==
    \A k \in 1..Len(f.hdr.sections) : f.hdr.sections[k].sh_type # SHT_DYNAMIC

\* C18: on an ELF file without a dynamic section the analysis gives no library
\* and no path, nothing is reported as an error, no file is created or changed,
\* and the run returns True by the "No modifications needed" path.
C18_NoDynamicSectionSucceeds ==
    (run = 1 /\ pre.hdr.magic = ElfMagic /\ HasNoDynamicSection(pre)) =>
        /\ Analysis(pre).needed_libs = <<>>
        /\ Analysis(pre).paths = <<>>
        /\ Plan = <<>>
        /\ stderr = <<>>
        /\ writes = <<>>
        /\ elf = pre
        /\ backup = NoFile
        /\ temp_elf = NoFile
        /\ ~temp_dir
        /\ pc \in {"start", "finally", "done"}
        /\ pc # "start" => (result = "True" /\ stdout = <<"No modifications needed">>)

\* C18's case: the run has returned True on a file whose only section is not
\* dynamic and holds the entry of a name that a pattern occurs in.
C18_Witness ==
    /\ pc = "done"
    /\ result = "True"
    /\ pre.hdr.magic = ElfMagic
    /\ Len(pre.hdr.sections) = 1
    /\ HasNoDynamicSection(pre)
    /\ \E p \in 1..Len(patterns) :
          OccursIn(patterns[p], Decode(SubSeq(pre.data, 2, Len(pre.data) - 1)))

\* The file was built with the class and data bytes of its layout.
BuiltWellFormed ==
    /\ built.magic = ElfMagic
    /\ built.ei_class = StdClass(built.bits)
    /\ built.ei_data = StdData(built.endian)

\* The header has been read without an exception.
HeaderRead == parser.at # "header" /\ ~(parser.at = "raised" /\ parser.stage = "header")

\* C15: on a file with the magic the header reader does not raise; it sets 64
\* bits exactly for class byte 2 (offset 4) and 32 for any other, big-endian
\* exactly for data byte 2 (offset 5) and little-endian for any other; on a
\* file built with the bytes of its layout it finds the layout's pair.
C15_ClassAndDataBytes ==
    (built.magic = ElfMagic /\ parser.at # "header") =>
        /\ HeaderRead
        /\ parser.bits = 64 <=> elf_file[5] = 2
        /\ parser.bits = 32 <=> elf_file[5] # 2
        /\ parser.endian = ">" <=> elf_file[6] = 2
        /\ parser.endian = "<" <=> elf_file[6] # 2
        /\ BuiltWellFormed => (parser.bits = built.bits /\ parser.endian = built.endian)

\* C15's case: a file with class and data bytes that the format does not know
\* was read as 32-bit little-endian, and parsed to its libraries.
C15_Witness ==
    /\ parser.at = "done"
    /\ built.ei_class \notin {1, 2}
    /\ built.ei_data \notin {1, 2}
    /\ parser.bits = 32
    /\ parser.endian = "<"
    /\ parser.needed_libs # <<>>

\* The sections of type SHT_DYNAMIC of the built file, by index.
DynamicIndexes == {k \in 1..Len(built.sections) : built.sections[k].sh_type = SHT_DYNAMIC}

\* The entries of the first dynamic section of the built file, as stored.
FirstDynamicEntries ==
    LET k == CHOOSE i \in DynamicIndexes : \A j \in DynamicIndexes : i <= j
    IN  [j \in 1..Len(built.sections[k].entries) |-> Stored(built, built.sections[k].entries[j])]

\* The scan of the sections is over.
Scanned == parser.at \in {"load", "ready", "done"}

\* C16: after the scan of a well-formed file the dynamic entries are those of
\* the first section of type SHT_DYNAMIC, and the string-table offset and size
\* are values of its entries; without such a section nothing is decoded.
C16_FirstDynamicSectionOnly ==
    (BuiltWellFormed /\ Scanned) =>
        IF DynamicIndexes = {}
        THEN /\ ~parser.found
             /\ parser.dynamic_section = <<>>
             /\ parser.strtab_offset = 0
             /\ parser.strtab_size = 0
        ELSE /\ parser.found
             /\ parser.dynamic_section = FirstDynamicEntries
             /\ \/ parser.strtab_offset = 0
                \/ \E j \in 1..Len(FirstDynamicEntries) :
                      FirstDynamicEntries[j] = <<DT_STRTAB, parser.strtab_offset>>
             /\ \/ parser.strtab_size = 0
                \/ \E j \in 1..Len(FirstDynamicEntries) :
                      FirstDynamicEntries[j] = <<DT_STRSZ, parser.strtab_size>>

\* C16's case: the file has two dynamic sections with different entries; the
\* parser holds the first one's, with a string table that the second does not
\* name.
C16_Witness ==
    /\ parser.at = "done"
    /\ BuiltWellFormed
    /\ Cardinality(DynamicIndexes) = 2
    /\ parser.dynamic_section = FirstDynamicEntries
    /\ parser.strtab_offset = TableAt(built, 1)
    /\ parser.loaded
    /\ \E j \in 1..Len(built.sections[2].entries) :
          built.sections[2].entries[j] = <<DT_STRTAB, 2>>

\* The value, as stored, of the last entry tagged tag of the first dynamic
\* section; 0 when it has none.
LastStored(tag) ==
    LET at == {j \in 1..Len(FirstDynamicEntries) : FirstDynamicEntries[j][1] = tag}
    IN  IF at = {} THEN 0
        ELSE FirstDynamicEntries[CHOOSE j \in at : \A k \in at : k <= j][2]

\* C17: no string table is loaded before the scan of the dynamic table is over;
\* once the parser of a well-formed file is entered, the offset and size of
\* the string table are the values of the last DT_STRTAB and the last DT_STRSZ
\* entry, and the table loaded is the bytes of the file there.
C17_LastLocatorsAfterScan ==
    /\ parser.at \in {"header", "table", "sections", "entries", "load"} =>
          (~parser.loaded /\ parser.string_table = <<>>)
    /\ (BuiltWellFormed /\ DynamicIndexes # {} /\ parser.at \in {"ready", "done"}) =>
          /\ parser.strtab_offset = LastStored(DT_STRTAB)
          /\ parser.strtab_size = LastStored(DT_STRSZ)
          /\ parser.loaded <=> (LastStored(DT_STRTAB) # 0 /\ LastStored(DT_STRSZ) # 0)
          /\ parser.loaded =>
                parser.string_table
                    = Read(elf_file, LastStored(DT_STRTAB), LastStored(DT_STRSZ))

\* C17's case: the table names string table 1, then string table 2, and two
\* sizes; the table loaded is the second, by the last size, and differs from
\* what the first entries name.
C17_Witness ==
    /\ parser.at = "done"
    /\ BuiltWellFormed
    /\ DynamicIndexes # {}
    /\ parser.loaded
    /\ \E i, j \in 1..Len(FirstDynamicEntries) :
          /\ i < j
          /\ FirstDynamicEntries[i] = <<DT_STRTAB, TableAt(built, 1)>>
          /\ FirstDynamicEntries[j] = <<DT_STRTAB, TableAt(built, 2)>>
    /\ parser.strtab_offset = TableAt(built, 2)
    /\ parser.string_table = <<0, 98, 0>>
    /\ parser.needed_libs # <<>>

\* C19: a lookup at an offset finds a string exactly when the loaded table has
\* a NUL at or after the offset, and the string is the text of the bytes from
\* the offset up to the first such NUL; nothing is found past the end, and
\* nothing at all when no table is loaded.
C19_LookupUpToFirstNul ==
    \A offset \in 0..(Len(parser.string_table) + 1) :
        LET r == GetString(parser.string_table, offset)
            nuls == {k \in offset..(Len(parser.string_table) - 1) :
                        parser.string_table[k + 1] = 0}
        IN  /\ r.found <=> nuls # {}
            /\ r.found =>
                  \E end \in nuls :
                      /\ \A k \in nuls : end <= k
                      /\ r.s = Decode([k \in 1..(end - offset) |->
                                          parser.string_table[offset + k]])
            /\ ~parser.loaded => ~r.found
            /\ offset >= Len(parser.string_table) => ~r.found

\* C19's case: in the loaded table one offset resolves to a text, one to the
\* empty text, and one inside the table to nothing, for want of a terminator;
\* the entries of the dynamic table were looked up in it.
C19_Witness ==
    /\ parser.at = "done"
    /\ parser.loaded
    /\ \E o1, o2, o3 \in 0..(Len(parser.string_table) - 1) :
          /\ GetString(parser.string_table, o1).found
          /\ GetString(parser.string_table, o1).s # <<>>
          /\ GetString(parser.string_table, o2).found
          /\ GetString(parser.string_table, o2).s = <<>>
          /\ ~GetString(parser.string_table, o3).found
    /\ parser.needed_libs # <<>>

\* C20: once the lists are taken, every DT_NEEDED entry whose lookup finds a
\* string is in needed_libs with that string and its offset, and every
\* DT_RPATH or DT_RUNPATH entry whose lookup finds a string is in paths.
C20_EveryResolvedEntryListed ==
    parser.at = "done" =>
        \A k \in 1..Len(parser.dynamic_section) :
            LET e == parser.dynamic_section[k]
                r == GetString(parser.string_table, e[2])
            IN  /\ (e[1] = DT_NEEDED /\ r.found) =>
                      \E i \in 1..Len(parser.needed_libs) :
                          parser.needed_libs[i] = [name |-> r.s, offset |-> e[2]]
                /\ (e[1] \in {DT_RPATH, DT_RUNPATH} /\ r.found) =>
                      \E i \in 1..Len(parser.paths) :
                          parser.paths[i] = [name |-> r.s, offset |-> e[2], tag |-> e[1]]

\* C26: every entry of a plan that the matcher built has a replacement whose
\* bytes are no longer than the bytes of the old text, and no entry of any run
\* is rejected as too long.
C26_ReplacementNeverLonger ==
    /\ \A k \in 1..Len(Plan) :
          /\ Len(Encode(Plan[k].new)) + 1 <= Len(OldBytes(Plan[k].old))
          /\ ~TooLong(Plan[k].old, Plan[k].new)
    /\ \A k \in 1..Len(outcomes) : outcomes[k] # "too_long"

\* C26's case: a run is over whose plan held a library replaced by a shorter
\* basename and a path that lost a component, and both went through the
\* length test.
C26_Witness ==
    /\ pc = "done"
    /\ Len(outcomes) = Len(Plan)
    /\ \E k \in 1..Len(modified_libs) :
          /\ Len(Encode(modified_libs[k].new)) < Len(Encode(modified_libs[k].old))
          /\ outcomes[k] = "written"
    /\ \E k \in 1..Len(modified_paths) :
          /\ Len(Encode(modified_paths[k].new)) < Len(Encode(modified_paths[k].old))
          /\ outcomes[Len(modified_libs) + k] = "written"

\* The place in f.data of the NUL that ends the string stored from place lo
\* on; the end of the data when none is stored.
TerminatorAt(f, lo) ==
    LET nuls == {k \in lo..Len(f.data) : f.data[k] = 0}
    IN  IF nuls = {} THEN Len(f.data)
        ELSE CHOOSE k \in nuls : \A j \in nuls : k <= j

\* C27: a step of the patch loops changes no byte of the file being modified
\* before the first byte of the entry's string or after the NUL that ends it
\* on disk, and leaves the length of the file as it is.
C27_WriteWithinStoredString ==
    [][PatchStep =>
        LET f == FileAt(FileToModify)
            g == FileAt(FileToModify)'
            lo == strtab_offset + CurrentEntry.offset - HdrSize + 1
            hi == TerminatorAt(f, lo)
        IN  /\ Len(g.data) = Len(f.data)
            /\ \A k \in 1..Len(f.data) :
                  (k < lo \/ k > hi) => (k <= Len(g.data) /\ g.data[k] = f.data[k])
      ]_vars

\* The bytes stored in f from place lo up to and including their terminator.
StoredString(f, lo) == SubSeq(f.data, lo, TerminatorAt(f, lo))

\* C28: an entry whose stored bytes in the file being modified are those the
\* analysis read from the target passes the verification and is written.
C28_UnchangedEntryWritten ==
    [][PatchStep =>
        LET lo == strtab_offset + CurrentEntry.offset - HdrSize + 1
        IN  StoredString(FileAt(FileToModify), lo) = StoredString(pre, lo) =>
                /\ Verified(FileAt(FileToModify), strtab_offset + CurrentEntry.offset,
                            CurrentEntry.old)
                /\ outcomes' = Append(outcomes, "written")
                /\ Len(writes') = Len(writes) + 1
      ]_vars

\* C30: a run after the first finds the backup of an earlier run and leaves
\* its content as it is when it gets to the copy of line 244.
C30_BackupKeepsFirstContent ==
    [][(run > 1 /\ backup.exists /\ pc = "copy_backup" /\ pc' = "patch")
          => backup' = backup]_vars

\* C23: when modify_elf_file has returned, no temporary directory and no
\* temporary copy is left, whatever the run did.
C23_TempDirRemoved ==
    pc = "done" => (~temp_dir /\ temp_elf = NoFile)

\* C23's case: a run with a backup made its temporary directory and the
\* copies, then something raised, and it has returned False.
C23_Witness ==
    /\ pc = "done"
    /\ create_backup
    /\ backed_up
    /\ result = "False"
    /\ ~temp_dir

\* The process has ended.
Exited == pc \in {"exit_0", "exit_1"}

\* C22: the process ends with status 0 exactly when modify_elf_file was called
\* and returned True, which it does when nothing raised, the empty plan
\* included; it ends with status 1 when the path names no file, when the first
\* four bytes are not the magic (modify_elf_file is not called then), and when
\* the except clause turned an exception into False.
C22_ExitStatus ==
    Exited =>
        /\ pc = "exit_0" <=> result = "True"
        /\ (~pre.exists \/ pre.hdr.magic # ElfMagic) =>
              (pc = "exit_1" /\ result = "none" /\ elf = pre)
        /\ result = "False" => pc = "exit_1"
        /\ (result = "True" /\ Plan = <<>>) => pc = "exit_0"

\* C22's case: the process has ended with status 1 after the except clause ran
\* in a run that had written to the temporary copy.
C22_Witness ==
    /\ pc = "exit_1"
    /\ result = "False"
    /\ writes # <<>>

\* The entries of the run so far that were skipped.
Skipped == {k \in 1..Len(outcomes) : outcomes[k] \in {"mismatch", "too_long"}}

\* C24: with QUIET set no informational message is printed, and with or
\* without it every skipped entry, every exception caught by modify_elf_file
\* and every failed check of main has its message on the error stream.
C24_QuietKeepsErrors ==
    /\ quiet => stdout = <<>>
    /\ \A k \in Skipped : \E i \in 1..Len(stderr) : stderr[i].n = k
    /\ (pc \in {"finally", "done", "exit_1"} /\ result = "False") =>
          \E i \in 1..Len(stderr) : stderr[i].kind = "Failed to modify ELF file"
    /\ (pc = "exit_1" /\ result = "none") => stderr # <<>>

\* C25: the patch handle is open from before the first entry until the loops
\* are left, and when modify_elf_file has returned no handle it opened is
\* open, neither the patch handle nor the analysis handle of the parser.
C25_HandlesClosed ==
    /\ (pc = "patch") <=> ("patch" \in handles)
    /\ pc = "done" => handles = {}

\* C21: when the loops are over without an exception in a run that skipped an
\* entry, modify_elf_file returns True, the process exits with status 0, and
\* with a backup requested the target holds what the working copy held.
C21_SkippedEntriesStillSucceed ==
    /\ [][(pc = "patch" /\ LoopsDone /\ pc' = "finally" /\ Skipped # {}) =>
            /\ result' = "True"
            /\ create_backup => elf' = temp_elf
         ]_vars
    /\ [][(pc = "done" /\ result = "True" /\ Skipped # {} /\ pc' # pc) => pc' = "exit_0"]_vars
    /\ [](((pc \in {"finally", "done"} \/ Exited) /\ Skipped # {}) => result = "True")

\* C21's case: a backup run has exited after one entry was skipped and another
\* written, and the target was replaced by the patched copy.
C21_Witness ==
    /\ Exited
    /\ create_backup
    /\ Skipped # {}
    /\ \E k \in 1..Len(outcomes) : outcomes[k] = "written"
    /\ elf # pre

\* The dynamic entries of f that name a string.
StringEntries(f) ==
    LET es == FindDynamicSection(f.hdr).dynamic_section
    IN  {k \in 1..Len(es) : es[k][1] \in StringTags}

\* What the k-th dynamic entry of f resolves to when f is parsed.
Resolved(f, k) ==
    LET d == FindDynamicSection(f.hdr)
    IN  GetString(LoadStringTable(f, d.strtab_offset, d.strtab_size), d.dynamic_section[k][2])

\* The replacement computed for the text s of an entry under tag.
ComputedReplacement(tag, s) ==
    IF tag = DT_NEEDED THEN Basename(s) ELSE NewPath(patterns, s)

\* C29: after a run that returned True every string entry in which no pattern
\* occurs resolves to what it resolved to before the run, and every other
\* string entry resolves to its old text or to its computed replacement.
C29_OtherStringsIntact ==
    (pc = "done" /\ result = "True") =>
        \A k \in StringEntries(pre) :
            LET before == Resolved(pre, k)
                after == Resolved(elf, k)
                tag == FindDynamicSection(pre.hdr).dynamic_section[k][1]
            IN  before.found =>
                    IF ~AnyMatch(patterns, before.s)
                    THEN after = before
                    ELSE /\ after.found
                         /\ after.s \in {before.s, ComputedReplacement(tag, before.s)}

=============================================================================
